---- MODULE Spec2Model ----
(***************************************************************************)
(* ISI generator: a form collects style values and an ISI text, a schema   *)
(* validates them, handleISIValues renders the text line by line into an   *)
(* HTML table, and the result can be copied to the clipboard.              *)
(*                                                                         *)
(* Three revisions of the renderer are modelled:                           *)
(*   "form"  src/src/components/isi-form.tsx                                *)
(*   "part"  src/unnamed/part_000                                           *)
(*   "app"   src/src/App.tsx                                                *)
(*                                                                         *)
(* A JavaScript string is a sequence of atoms.  An atom is either a single *)
(* character (user input, digits of a rendered number, characters of a     *)
(* short literal value) or one literal chunk of a template literal, cut at *)
(* its interpolation points.  The concatenation of the atoms is the string.*)
(***************************************************************************)
EXTENDS Integers, Sequences, FiniteSets, TLC

VARIABLES
    variant,             \* which revision of the program is running
    form,                \* react-hook-form field values (raw input strings)
    errors,              \* formState.errors: the fields the schema rejected
    generatedISI,        \* useState("") of App: the generated HTML
    isClipboardWritten,  \* useState(false) of App
    handled,             \* the last call of handleISIValues: its argument
    pending,             \* clipboard writes started and not yet settled
    clipboard,           \* the text last written to the system clipboard
    toast,               \* the last notification raised
    edits,               \* number of inputs the user has typed so far
    first                \* the first call of handleISIValues and its output

vars == <<variant, form, errors, generatedISI, isClipboardWritten, handled,
          pending, clipboard, toast, edits, first>>

----------------------------------------------------------------------------
(* Bounds of the model                                                      *)

MaxLen == 3        \* longest ISI text drawn exhaustively from the alphabet
MaxEdits == 2      \* inputs the user types into before leaving the form alone
MaxPending == 1    \* clipboard writes in flight at once
MaxColorLen == 7   \* longest colour string drawn exhaustively from the alphabet
MaxNumLen == 2     \* longest numeric input drawn exhaustively from the alphabet

----------------------------------------------------------------------------
(* Characters and strings                                                   *)

CR == "\r"
LF == "\n"

Chars(s) == { s[i] : i \in 1..Len(s) }

DigitChars == <<"0", "1", "2", "3", "4", "5", "6", "7", "8", "9">>

IsDigit(c) == \E d \in 1..10 : DigitChars[d] = c

DigitVal(c) == (CHOOSE d \in 1..10 : DigitChars[d] = c) - 1

\* String(n) for a non-negative integer, as a template literal renders it
RECURSIVE NumToStr(_)
NumToStr(n) ==
    IF n < 10 THEN <<DigitChars[n + 1]>>
    ELSE NumToStr(n \div 10) \o <<DigitChars[(n % 10) + 1]>>

\* String.prototype.startsWith
startsWith(text, prefix) ==
    /\ Len(text) >= Len(prefix)
    /\ SubSeq(text, 1, Len(prefix)) = prefix

\* String.prototype.substring(n)
substring(text, n) == SubSeq(text, n + 1, Len(text))

\* Array.prototype.join("") over an array of strings
RECURSIVE join(_)
join(rows) == IF rows = <<>> THEN <<>> ELSE Head(rows) \o join(Tail(rows))

----------------------------------------------------------------------------
(* Splitting the ISI text into lines                                        *)

\* ISI.split(/\r?\n|\r/): at each position the regex takes "\r\n", else "\n",
\* else "\r" as one separator; cur is the segment read so far
RECURSIVE splitFrom(_, _)
splitFrom(s, cur) ==
    IF s = <<>> THEN <<cur>>
    ELSE IF Len(s) >= 2 /\ s[1] = CR /\ s[2] = LF
         THEN <<cur>> \o splitFrom(SubSeq(s, 3, Len(s)), <<>>)
    ELSE IF s[1] = LF \/ s[1] = CR
         THEN <<cur>> \o splitFrom(Tail(s), <<>>)
    ELSE splitFrom(Tail(s), Append(cur, s[1]))

\* a split that knows "\n" only (faulty variant of split)
RECURSIVE splitLFFrom(_, _)
splitLFFrom(s, cur) ==
    IF s = <<>> THEN <<cur>>
    ELSE IF s[1] = LF THEN <<cur>> \o splitLFFrom(Tail(s), <<>>)
    ELSE splitLFFrom(Tail(s), Append(cur, s[1]))

splitLFOnly(s) == splitLFFrom(s, <<>>)

split(s) == splitFrom(s, <<>>)

\* a filter that keeps every row (faulty variant of filterRows)
filterNothing(rows) == rows

\* .filter((row) => row.length > 0)
filterRows(rows) == SelectSeq(rows, LAMBDA row : Len(row) > 0)

----------------------------------------------------------------------------
(* Template chunks shared by the revisions                                  *)

StyleFontSize == "font-family: Arial, Helvetica, sans-serif; font-size: "
StylePadding == "; padding-bottom: "
Bold == "bold;"
Normal == "normal;"

\* the literal values the code falls back to
Px == <<"p", "x">>
Default10px == <<"1", "0", "p", "x">>
Default12px == <<"1", "2", "p", "x">>
Default16px == <<"1", "6", "p", "x">>
Default30px == <<"3", "0", "p", "x">>
DefaultBlack == <<"#", "0", "0", "0", "0", "0", "0">>
DefaultTableColor == <<"#", "F", "F", "F", "F", "F", "E">>

----------------------------------------------------------------------------
(* isi-form.tsx: handleISIValues                                            *)

StyleLineHeight == "px; line-height: "
StyleColor == "px; color: "
StyleWeight == "px; font-weight: "

RowOpen == "\n\t\t\t\t<tr>\n\t\t\t\t\t<td align=\"left\" style=\""
RowTextOpen == "\">\n\t\t\t\t\t\t"
RowClose == "\n\t\t\t\t\t</td>\n\t\t\t\t</tr>"

BulletRowOpen == "\n\t\t\t\t<tr>\n\t\t\t\t\t<td>\n\t\t\t\t\t\t<table cellpadding=\"0\" cellspacing=\"0\" border=\"0\" width=\"100%\">\n\t\t\t\t\t\t\t<tr>\n\t\t\t\t\t\t\t\t<td width=\"12\" valign=\"top\" align=\"left\" style=\""
BulletGlyph == "\">&bull;</td>"
BulletTextCell == "\n\t\t\t\t\t\t\t\t<td valign=\"top\" align=\"left\" style=\""
BulletTextOpen == "\">"
BulletRowClose == "</td>\n\t\t\t\t\t\t\t</tr>\n\t\t\t\t\t\t</table>\n\t\t\t\t\t</td>\n\t\t\t\t</tr>"

WrapOpen == "<table cellpadding=\"0\" cellspacing=\"0\" border=\"0\" width=\"600\" style=\"min-width: 600px;\" class=\"wrapper\" role=\"presentation\" bgcolor=\""
WrapGutterLeft == "\">\n\t<tr>\n\t\t<td width=\""
WrapInner == "\" class=\"gutter\">&nbsp;</td>\n\t\t<td>\n\t\t\t<table cellpadding=\"0\" cellspacing=\"0\" border=\"0\" width=\"100%\">"
WrapGutterRight == "\n\t\t\t</table>\n\t\t</td>\n\t\t<td width=\""
WrapClose == "\" class=\"gutter\">&nbsp;</td>\n\t</tr>\n</table>"

\* the style of a cell: font size, line height, the given colour, padding, weight
cellStyle_form(v, color, weight) ==
    <<StyleFontSize>> \o NumToStr(v.fontSize)
    \o <<StyleLineHeight>> \o NumToStr(v.lineHeight)
    \o <<StyleColor>> \o color
    \o <<StylePadding>> \o NumToStr(v.padding)
    \o <<StyleWeight, weight>>

\* const commonStyle = `...`
commonStyle_form(v, isBold) ==
    cellStyle_form(v, v.fontColor, IF isBold THEN Bold ELSE Normal)

\* the style of the glyph cell, written out in the bullet template
bulletStyle_form(v) == cellStyle_form(v, v.bulletColor, Bold)

\* a generateRow whose weight is always normal (faulty variant of generateRow_form)
generateRowNormal_form(v, text, isBold, isBullet) ==
    <<RowOpen>> \o commonStyle_form(v, FALSE) \o <<RowTextOpen>> \o text
    \o <<RowClose>>

generateRow_form(v, text, isBold, isBullet) ==
    IF isBullet
    THEN <<BulletRowOpen>> \o bulletStyle_form(v) \o <<BulletGlyph, BulletTextCell>>
         \o commonStyle_form(v, isBold) \o <<BulletTextOpen>> \o text
         \o <<BulletRowClose>>
    ELSE <<RowOpen>> \o commonStyle_form(v, isBold) \o <<RowTextOpen>> \o text
         \o <<RowClose>>

\* a classifier that strips one character of "**" (faulty variant of mapRow_form)
mapRowStripOne_form(v, text) ==
    IF startsWith(text, <<"*", "*">>)
    THEN generateRow_form(v, substring(text, 1), TRUE, FALSE)
    ELSE IF startsWith(text, <<"-">>)
    THEN generateRow_form(v, substring(text, 1), FALSE, TRUE)
    ELSE generateRow_form(v, text, FALSE, FALSE)

\* the callback of .map((text) => ...)
mapRow_form(v, text) ==
    IF startsWith(text, <<"*", "*">>)
    THEN generateRow_form(v, substring(text, 2), TRUE, FALSE)
    ELSE IF startsWith(text, <<"-">>)
    THEN generateRow_form(v, substring(text, 1), FALSE, TRUE)
    ELSE generateRow_form(v, text, FALSE, FALSE)

\* rows joined in reverse order (faulty variant of generatedISIRows_form)
RECURSIVE reverse(_)
reverse(rows) == IF rows = <<>> THEN <<>> ELSE Append(reverse(Tail(rows)), Head(rows))

generatedISIRowsReversed_form(v) ==
    LET rows == filterRows(split(v.ISI))
    IN  join(reverse([k \in 1..Len(rows) |-> mapRow_form(v, rows[k])]))

\* const generatedISIRows = ISI.split(...).filter(...).map(...).join("")
generatedISIRows_form(v) ==
    LET rows == filterRows(split(v.ISI))
    IN  join([k \in 1..Len(rows) |-> mapRow_form(v, rows[k])])

\* const gutterWidthValue = gutterWidth ? gutterWidth : "30px"
gutterWidthValue_form(v) ==
    IF v.gutterWidth # 0 THEN NumToStr(v.gutterWidth) ELSE Default30px

\* the table colour as given, without the fallback (faulty variant of
\* tableColorValue_form)
tableColorValueRaw_form(v) == v.tableColor

\* const tableColorValue = tableColor ? tableColor : "#FFFFFE"
tableColorValue_form(v) ==
    IF v.tableColor # <<>> THEN v.tableColor ELSE DefaultTableColor

\* the string handleISIValues hands to setGeneratedISI
render_form(v) ==
    <<WrapOpen>> \o tableColorValue_form(v)
    \o <<WrapGutterLeft>> \o gutterWidthValue_form(v)
    \o <<WrapInner>> \o generatedISIRows_form(v)
    \o <<WrapGutterRight>> \o gutterWidthValue_form(v)
    \o <<WrapClose>>

----------------------------------------------------------------------------
(* part_000: handleISIValues                                                *)

PStyleLineHeight == "; line-height: "
PStyleColor == "; color: "
PStyleWeight == "; font-weight: "

PRowOpen == "<table cellpadding=\"0\" cellspacing=\"0\" border=\"0\" width=\"100%\" bgcolor=\""
PRowGutterLeft == "\">\n\t<tr>\n\t\t<td width=\""
PRowCell == "\" class=\"gutter\">&nbsp;</td>\n\t\t<td align=\"left\" style=\""
PRowTextOpen == "\">\n\t\t\t"
PRowTextClose == "\n\t\t</td>\n\t\t<td width=\""
PRowClose == "\" class=\"gutter\">&nbsp;</td>\n\t</tr>\n</table>\n"

PBulletOpen == "\n\t\t\t<table cellpadding=\"0\" cellspacing=\"0\" border=\"0\" width=\"100%\">\n\t\t\t\t<tr>\n\t\t\t\t\t<td width=\"12\" valign=\"top\" align=\"left\" style=\""
PBulletGlyph == " font-weight: bold;\">&bull;</td>\n\t\t\t\t\t<td valign=\"top\" align=\"left\" style=\""
PBulletTextOpen == "\">"
PBulletClose == "</td>\n\t\t\t\t</tr>\n\t\t\t</table>\n\t\t"

\* const paddingValue = padding ? padding + "px" : "10px"
paddingValue_part(v) == IF v.padding # 0 THEN NumToStr(v.padding) \o Px ELSE Default10px

\* const fontSizeValue = fontSize ? fontSize + "px" : "16px"
fontSizeValue_part(v) == IF v.fontSize # 0 THEN NumToStr(v.fontSize) \o Px ELSE Default16px

\* const fontColorValue = fontColor ? fontColor : "#000000"
fontColorValue_part(v) == IF v.fontColor # <<>> THEN v.fontColor ELSE DefaultBlack

\* const lineHeightValue = lineHeight ? lineHeight + "px" : "16px"
lineHeightValue_part(v) ==
    IF v.lineHeight # 0 THEN NumToStr(v.lineHeight) \o Px ELSE Default16px

\* const gutterWidthValue = gutterWidth ? gutterWidth + "px" : "30px"
gutterWidthValue_part(v) ==
    IF v.gutterWidth # 0 THEN NumToStr(v.gutterWidth) \o Px ELSE Default30px

\* const tableColorValue = tableColor ? tableColor : "#FFFFFE"
tableColorValue_part(v) ==
    IF v.tableColor # <<>> THEN v.tableColor ELSE DefaultTableColor

commonStyle_part(v, isBold) ==
    <<StyleFontSize>> \o fontSizeValue_part(v)
    \o <<PStyleLineHeight>> \o lineHeightValue_part(v)
    \o <<PStyleColor>> \o fontColorValue_part(v)
    \o <<StylePadding>> \o paddingValue_part(v)
    \o <<PStyleWeight, IF isBold THEN Bold ELSE Normal>>

\* if (isBullet) { text = `...` }
bulletText_part(v, text, isBold) ==
    <<PBulletOpen>> \o commonStyle_part(v, isBold) \o <<PBulletGlyph>>
    \o commonStyle_part(v, isBold) \o <<PBulletTextOpen>> \o text \o <<PBulletClose>>

generateRow_part(v, text, isBold, isBullet) ==
    <<PRowOpen>> \o tableColorValue_part(v)
    \o <<PRowGutterLeft>> \o gutterWidthValue_part(v)
    \o <<PRowCell>> \o commonStyle_part(v, isBold)
    \o <<PRowTextOpen>>
    \o (IF isBullet THEN bulletText_part(v, text, isBold) ELSE text)
    \o <<PRowTextClose>> \o gutterWidthValue_part(v)
    \o <<PRowClose>>

mapRow_part(v, text) ==
    IF startsWith(text, <<"*", "*">>)
    THEN generateRow_part(v, substring(text, 2), TRUE, FALSE)
    ELSE IF startsWith(text, <<"-">>)
    THEN generateRow_part(v, substring(text, 1), FALSE, TRUE)
    ELSE generateRow_part(v, text, FALSE, FALSE)

\* the string handleISIValues hands to setGeneratedISI
render_part(v) ==
    LET rows == filterRows(split(v.ISI))
    IN  join([k \in 1..Len(rows) |-> mapRow_part(v, rows[k])])

----------------------------------------------------------------------------
(* App.tsx: handleISIValues                                                 *)

ARowOpen == "<tr>\n\t<td width=\""
ARowCell == "\" class=\"gutter\">&nbsp;</td>\n\t<td align=\"left\" style=\""
AStyleWeight == ";font-weight: "
ARowTextOpen == "\">\n\t\t"
ARowTextClose == "\n\t</td>\n\t<td width=\""
ARowClose == "\" class=\"gutter\">&nbsp;</td>\n</tr>\n"

ABulletOpen == "\">\n\t\t<table cellpadding=\"0\" cellspacing=\"0\" border=\"0\" width=\"100%\">\n\t\t\t<tr>\n\t\t\t\t<td width=\"12\" valign=\"top\" align=\"left\" style=\""
ABulletFontSize == "font-family: sans-serif; font-size: "
ABulletWeight == "; color: #000000; font-weight: bold; padding-bottom: "
ABulletGlyph == ";\">&bull;</td>"
ABulletTextCell == "\n\t\t\t\t<td width=\"12\" valign=\"top\" align=\"left\" style=\""
ABulletTextOpen == ";\">"
ABulletClose == "</td>\n\t\t\t</tr>\n\t\t</table>\n\t</td>\n\t<td width=\""

\* ${gutterWidth ? gutterWidth + "px" : "30px"}
gutterWidthValue_app(v) ==
    IF v.gutterWidth # 0 THEN NumToStr(v.gutterWidth) \o Px ELSE Default30px

\* ${fontSize ? fontSize + "px" : "12px"}
fontSizeValue_app(v) == IF v.fontSize # 0 THEN NumToStr(v.fontSize) \o Px ELSE Default12px

\* ${fontSize ? fontSize : "12px"}, as the "**" branch writes it
fontSizeBoldValue_app(v) == IF v.fontSize # 0 THEN NumToStr(v.fontSize) ELSE Default12px

\* ${lineHeight ? lineHeight + "px" : "16px"}
lineHeightValue_app(v) ==
    IF v.lineHeight # 0 THEN NumToStr(v.lineHeight) \o Px ELSE Default16px

\* ${fontColor ? fontColor : "#000000"}
fontColorValue_app(v) == IF v.fontColor # <<>> THEN v.fontColor ELSE DefaultBlack

\* ${padding ? padding + "px" : "10px"}
paddingValue_app(v) == IF v.padding # 0 THEN NumToStr(v.padding) \o Px ELSE Default10px

rowStyle_app(v, fontSizeValue, weight) ==
    <<StyleFontSize>> \o fontSizeValue
    \o <<PStyleLineHeight>> \o lineHeightValue_app(v)
    \o <<PStyleColor>> \o fontColorValue_app(v)
    \o <<StylePadding>> \o paddingValue_app(v)
    \o <<AStyleWeight, weight>>

bulletCellStyle_app(v) ==
    <<ABulletFontSize>> \o fontSizeValue_app(v)
    \o <<PStyleLineHeight>> \o lineHeightValue_app(v)
    \o <<ABulletWeight>> \o paddingValue_app(v)

\* if (text.startsWith("**")) { generatedISIRows += `...` }
boldRow_app(v, text) ==
    <<ARowOpen>> \o gutterWidthValue_app(v) \o <<ARowCell>>
    \o rowStyle_app(v, fontSizeBoldValue_app(v), Bold)
    \o <<ARowTextOpen>> \o substring(text, 2)
    \o <<ARowTextClose>> \o gutterWidthValue_app(v) \o <<ARowClose>>

\* if (text.startsWith("-")) { generatedISIRows += `...` }
bulletRow_app(v, text) ==
    <<ARowOpen>> \o gutterWidthValue_app(v) \o <<ARowCell>>
    \o rowStyle_app(v, fontSizeValue_app(v), Normal)
    \o <<ABulletOpen>> \o bulletCellStyle_app(v) \o <<ABulletGlyph, ABulletTextCell>>
    \o bulletCellStyle_app(v) \o <<ABulletTextOpen>> \o substring(text, 1)
    \o <<ABulletClose>> \o gutterWidthValue_app(v) \o <<ARowClose>>

\* if (!text.startsWith("**") && !text.startsWith("-")) { generatedISIRows += `...` }
plainRow_app(v, text) ==
    <<ARowOpen>> \o gutterWidthValue_app(v) \o <<ARowCell>>
    \o rowStyle_app(v, fontSizeValue_app(v), Normal)
    \o <<ARowTextOpen>> \o text
    \o <<ARowTextClose>> \o gutterWidthValue_app(v) \o <<ARowClose>>

\* a third test that forgets the "-" (faulty variant of forEachRow_app)
forEachRowLoose_app(v, text) ==
    (IF startsWith(text, <<"*", "*">>) THEN boldRow_app(v, text) ELSE <<>>)
    \o (IF startsWith(text, <<"-">>) THEN bulletRow_app(v, text) ELSE <<>>)
    \o (IF ~startsWith(text, <<"*", "*">>) THEN plainRow_app(v, text) ELSE <<>>)

\* the body of splittedISIText.forEach: three independent if statements
forEachRow_app(v, text) ==
    (IF startsWith(text, <<"*", "*">>) THEN boldRow_app(v, text) ELSE <<>>)
    \o (IF startsWith(text, <<"-">>) THEN bulletRow_app(v, text) ELSE <<>>)
    \o (IF ~startsWith(text, <<"*", "*">>) /\ ~startsWith(text, <<"-">>)
        THEN plainRow_app(v, text) ELSE <<>>)

\* the string handleISIValues hands to setGeneratedISI
render_app(v) ==
    LET rows == split(v.ISI)
    IN  join([k \in 1..Len(rows) |-> forEachRow_app(v, rows[k])])

----------------------------------------------------------------------------
(* The schema and the form                                                  *)

Variants == {"form", "part", "app"}

NumFields == {"padding", "fontSize", "lineHeight", "gutterWidth"}

\* the fields each revision registers besides the numeric ones and ISI
ColorFields(r) ==
    CASE r = "form" -> {"fontColor", "tableColor", "bulletColor"}
      [] r = "part" -> {"fontColor", "tableColor"}
      [] r = "app"  -> {"fontColor"}

HexChars == {"0", "1", "2", "3", "4", "5", "6", "7", "8", "9",
             "a", "b", "c", "d", "e", "f", "A", "B", "C", "D", "E", "F"}

IsHexRun(s) == Len(s) \in {3, 6} /\ Chars(s) \subseteq HexChars

\* a pattern whose "#" is optional (faulty variant of hexColor_form)
hexColorOptionalHash_form(s) ==
    \/ s = <<>>
    \/ IsHexRun(s)
    \/ /\ Len(s) >= 1
       /\ s[1] = "#"
       /\ IsHexRun(Tail(s))

\* /^(#([A-Fa-f0-9]{6}|[A-Fa-f0-9]{3}))$|^$/i
hexColor_form(s) ==
    \/ s = <<>>
    \/ /\ Len(s) >= 1
       /\ s[1] = "#"
       /\ IsHexRun(Tail(s))

\* /^#?([A-Fa-f0-9]{6}|[A-Fa-f0-9]{3})?$|^$/i
hexColor_app(s) ==
    LET digits == IF Len(s) >= 1 /\ s[1] = "#" THEN Tail(s) ELSE s
    IN  digits = <<>> \/ IsHexRun(digits)

hexColor(r, s) == IF r = "app" THEN hexColor_app(s) ELSE hexColor_form(s)

\* z.coerce.number rejects what Number() turns into NaN; over the input
\* alphabet (digits and letters) that is every string holding a non-digit
IsNaN(s) == \E i \in 1..Len(s) : ~IsDigit(s[i])

\* Number(s) for a string of digits; Number("") is 0
RECURSIVE Number(_)
Number(s) ==
    IF s = <<>> THEN 0
    ELSE 10 * Number(SubSeq(s, 1, Len(s) - 1)) + DigitVal(s[Len(s)])

\* a schema that accepts an empty ISI text (faulty variant of schemaErrors)
schemaErrorsNoISI(r, f) ==
    { k \in NumFields : IsNaN(f[k]) }
    \cup { k \in ColorFields(r) : ~hexColor(r, f[k]) }

\* the fields ISIValuesSchema rejects
schemaErrors(r, f) ==
    { k \in NumFields : IsNaN(f[k]) }
    \cup { k \in ColorFields(r) : ~hexColor(r, f[k]) }
    \cup (IF Len(f.ISI) >= 1 THEN {} ELSE {"ISI"})

\* the value the resolver hands to handleISIValues
parse(f) ==
    [padding     |-> Number(f.padding),
     fontSize    |-> Number(f.fontSize),
     fontColor   |-> f.fontColor,
     tableColor  |-> f.tableColor,
     lineHeight  |-> Number(f.lineHeight),
     gutterWidth |-> Number(f.gutterWidth),
     ISI         |-> f.ISI,
     hasBullets  |-> f.hasBullets,
     bulletColor |-> f.bulletColor]

\* default values with the font size of the input's placeholder, 12 (faulty
\* variant of defaultValues_form)
defaultValuesPlaceholder_form ==
    [padding     |-> <<"1", "0">>,
     fontSize    |-> <<"1", "2">>,
     fontColor   |-> <<"#", "0", "0", "0", "0", "0", "0">>,
     tableColor  |-> <<"#", "F", "F", "F", "F", "F", "E">>,
     lineHeight  |-> <<"1", "6">>,
     gutterWidth |-> <<"3", "0">>,
     ISI         |-> <<>>,
     hasBullets  |-> FALSE,
     bulletColor |-> <<"#", "0", "0", "0", "0", "0", "0">>]

\* useForm({ defaultValues }) of isi-form.tsx; an input shows 10 as "10"
defaultValues_form ==
    [padding     |-> <<"1", "0">>,
     fontSize    |-> <<"1", "6">>,
     fontColor   |-> <<"#", "0", "0", "0", "0", "0", "0">>,
     tableColor  |-> <<"#", "F", "F", "F", "F", "F", "E">>,
     lineHeight  |-> <<"1", "6">>,
     gutterWidth |-> <<"3", "0">>,
     ISI         |-> <<>>,
     hasBullets  |-> FALSE,
     bulletColor |-> <<"#", "0", "0", "0", "0", "0", "0">>]

\* useForm() without defaultValues: every registered input starts empty
defaultValues_empty ==
    [padding     |-> <<>>,
     fontSize    |-> <<>>,
     fontColor   |-> <<>>,
     tableColor  |-> <<>>,
     lineHeight  |-> <<>>,
     gutterWidth |-> <<>>,
     ISI         |-> <<>>,
     hasBullets  |-> FALSE,
     bulletColor |-> <<>>]

defaultValues(r) == IF r = "form" THEN defaultValues_form ELSE defaultValues_empty

\* a generator that keeps its rows between calls and appends to what it
\* generated before (faulty variant of handleISIValues)
handleISIValuesAppending(r, v) ==
    generatedISI \o (CASE r = "form" -> render_form(v)
                       [] r = "part" -> render_part(v)
                       [] r = "app"  -> render_app(v))

\* handleISIValues of the running revision: the string it generates
handleISIValues(r, v) ==
    CASE r = "form" -> render_form(v)
      [] r = "part" -> render_part(v)
      [] r = "app"  -> render_app(v)

----------------------------------------------------------------------------
(* Inputs                                                                   *)

TextAlphabet == {"*", "-", "a", CR, LF}

\* "**-a": a bold marker followed by a bullet marker
BoldDashText == <<"*", "*", "-", "a">>

\* " <a ": markup and blanks the renderer passes through
MarkupText == <<" ", "<", "a", " ">>

\* "a\r\nb\rc\nd"
MixedText == <<"a", CR, LF, "b", CR, "c", LF, "d">>

\* "**b\n-c\nd": a bold, a bullet and a plain line
ThreeClassText == <<"*", "*", "b", LF, "-", "c", LF, "d">>

TextInputs ==
    UNION { [1..k -> TextAlphabet] : k \in 0..MaxLen } \cup {MixedText, ThreeClassText, BoldDashText, MarkupText}

\* "-c": one bullet line
BulletText == <<"-", "c">>

\* a text of one blank line, which gives no row, and a text of one row
SampleTexts == {<<LF>>, BulletText}

\* "0", "07" (the number 7) and "7p" (no number)
NumInputs == {<<"0">>, <<"0", "7">>, <<"7", "p">>}

\* "" and "#a0F" pass the schema, "#a0" does not
ColorInputs == {<<>>, <<"#", "a", "0", "F">>, <<"#", "a", "0">>}

\* every string of "0", "7" and "p": "", "0", "00", "07", "70", "7p", ...
NumStrings == UNION { [1..k -> {"0", "7", "p"}] : k \in 0..MaxNumLen }

\* a "#", a hex digit and a letter that is none
ColorAlphabet == {"#", "a", "G"}

\* "#a0F", "a0F", "#FFFFFE", "FFFFFE", "#00000g", "#a0F ": digits and both
\* cases, with and without the "#", and near misses
ColorExamples ==
    { <<"#", "a", "0", "F">>, <<"a", "0", "F">>,
      <<"#", "F", "F", "F", "F", "F", "E">>, <<"F", "F", "F", "F", "F", "E">>,
      <<"#", "0", "0", "0", "0", "0", "g">>, <<"#", "a", "0", "F", " ">> }

ColorStrings ==
    UNION { [1..k -> ColorAlphabet] : k \in 0..MaxColorLen } \cup ColorExamples

----------------------------------------------------------------------------
(* The program                                                              *)

Init ==
    /\ variant \in Variants
    /\ form = defaultValues(variant)
    /\ errors = {}
    /\ generatedISI = <<>>
    /\ isClipboardWritten = FALSE
    /\ handled = <<>>
    /\ pending = <<>>
    /\ clipboard = <<>>
    /\ toast = "none"
    /\ edits = 0
    /\ first = <<>>

Edit(f, s) ==
    /\ edits < MaxEdits
    /\ form[f] # s
    /\ form' = [form EXCEPT ![f] = s]
    /\ edits' = edits + 1
    /\ UNCHANGED <<variant, errors, generatedISI, isClipboardWritten, handled,
                   pending, clipboard, toast, first>>

\* the user types into the ISI textarea
TypeISI == \E t \in SampleTexts : Edit("ISI", t)

\* the user types into one of the numeric inputs
TypeNumber == \E f \in NumFields, s \in NumInputs : Edit(f, s)

\* the user types into a colour input; the bullet colour input is disabled
\* while hasBullets is off
TypeColor ==
    \E f \in ColorFields(variant), s \in ColorInputs :
        /\ f = "bulletColor" => form.hasBullets
        /\ Edit(f, s)

\* the user flips the "Change ISI bullets color" switch
ToggleHasBullets ==
    /\ variant = "form"
    /\ form' = [form EXCEPT !.hasBullets = ~form.hasBullets]
    /\ UNCHANGED <<variant, errors, generatedISI, isClipboardWritten, handled,
                   pending, clipboard, toast, edits, first>>

\* onSubmit={form.handleSubmit(handleISIValues)}: the resolver validates, and
\* handleISIValues runs on the parsed values only if nothing was rejected
Submit ==
    LET errs == schemaErrors(variant, form)
    IN  /\ UNCHANGED <<variant, form, pending, clipboard, toast, edits>>
        /\ errors' = errs
        /\ IF errs = {}
           THEN /\ handled' = <<parse(form)>>
                /\ isClipboardWritten' = FALSE
                /\ generatedISI' = handleISIValues(variant, parse(form))
           ELSE UNCHANGED <<handled, isClipboardWritten, generatedISI>>

\* the copy button, rendered only while generatedISI is not empty:
\* navigator.clipboard.writeText(generatedISI) starts a write
copyTextToClipboard ==
    /\ generatedISI # <<>>
    /\ Len(pending) < MaxPending
    /\ pending' = Append(pending, generatedISI)
    /\ UNCHANGED <<variant, form, errors, generatedISI, isClipboardWritten, handled,
                   clipboard, toast, edits, first>>

\* .then(() => { toast(...); setIsClipboardWritten(true); })
WriteResolved ==
    /\ pending # <<>>
    /\ clipboard' = Head(pending)
    /\ pending' = Tail(pending)
    /\ toast' = "copied"
    /\ isClipboardWritten' = TRUE
    /\ UNCHANGED <<variant, form, errors, generatedISI, handled, edits, first>>

\* a catch handler that also clears the copied mark (faulty variant of
\* WriteRejected)
WriteRejectedResets ==
    /\ pending # <<>>
    /\ pending' = Tail(pending)
    /\ toast' = "failed"
    /\ isClipboardWritten' = FALSE
    /\ UNCHANGED <<variant, form, errors, generatedISI, handled, clipboard, edits, first>>

\* .catch(() => { toast(...); })
WriteRejected ==
    /\ pending # <<>>
    /\ pending' = Tail(pending)
    /\ toast' = "failed"
    /\ UNCHANGED <<variant, form, errors, generatedISI, isClipboardWritten, handled,
                   clipboard, edits, first>>

Next ==
    \/ TypeISI
    \/ TypeNumber
    \/ TypeColor
    \/ ToggleHasBullets
    \/ Submit /\ UNCHANGED first
    \/ copyTextToClipboard
    \/ WriteResolved
    \/ WriteRejected

Spec == Init /\ [][Next]_vars

\* The renderer as a function of the text: the form is left as constructed
\* except for the ISI text, which is drawn from every string of the alphabet
InitText ==
    /\ variant \in Variants
    /\ \E t \in TextInputs : form = [defaultValues(variant) EXCEPT !.ISI = t]
    /\ errors = {}
    /\ generatedISI = <<>>
    /\ isClipboardWritten = FALSE
    /\ handled = <<>>
    /\ pending = <<>>
    /\ clipboard = <<>>
    /\ toast = "none"
    /\ edits = 0
    /\ first = <<>>

NextText ==
    \/ Submit /\ UNCHANGED first
    \/ copyTextToClipboard
    \/ WriteResolved
    \/ WriteRejected

SpecText == InitText /\ [][NextText]_vars

\* The calls of handleISIValues on record: the text is typed, replaced and
\* typed again, and the first call that ran is kept with the output it gave
InitCalls ==
    /\ variant \in Variants
    /\ \E t \in SampleTexts : form = [defaultValues(variant) EXCEPT !.ISI = t]
    /\ errors = {}
    /\ generatedISI = <<>>
    /\ isClipboardWritten = FALSE
    /\ handled = <<>>
    /\ pending = <<>>
    /\ clipboard = <<>>
    /\ toast = "none"
    /\ edits = 0
    /\ first = <<>>

\* keeps the argument and the output of the step's call if it is the first
Record ==
    first' = IF first = <<>> /\ handled' # <<>>
             THEN <<[arg |-> handled'[1], out |-> generatedISI']>>
             ELSE first

NextCalls ==
    \/ TypeISI
    \/ Submit /\ Record
    \/ copyTextToClipboard
    \/ WriteResolved
    \/ WriteRejected

SpecCalls == InitCalls /\ [][NextCalls]_vars

\* The schema as a function of one colour field: the form holds a text of one
\* row and a colour drawn from every string of the colour alphabet
InitColor ==
    /\ variant \in Variants
    /\ \E f \in ColorFields(variant), s \in ColorStrings :
           form = [defaultValues(variant) EXCEPT !.ISI = BulletText,
                                                 !.hasBullets = (f = "bulletColor"),
                                                 ![f] = s]
    /\ errors = {}
    /\ generatedISI = <<>>
    /\ isClipboardWritten = FALSE
    /\ handled = <<>>
    /\ pending = <<>>
    /\ clipboard = <<>>
    /\ toast = "none"
    /\ edits = 0
    /\ first = <<>>

NextColor == Submit /\ UNCHANGED first

SpecColor == InitColor /\ [][NextColor]_vars

\* The renderer as a function of one numeric field: the form holds a text of
\* three rows and one numeric input drawn from every string of its alphabet
InitNum ==
    /\ variant \in Variants
    /\ \E f \in NumFields, s \in NumStrings :
           form = [defaultValues(variant) EXCEPT !.ISI = ThreeClassText, ![f] = s]
    /\ errors = {}
    /\ generatedISI = <<>>
    /\ isClipboardWritten = FALSE
    /\ handled = <<>>
    /\ pending = <<>>
    /\ clipboard = <<>>
    /\ toast = "none"
    /\ edits = 0
    /\ first = <<>>

NextNum == Submit /\ UNCHANGED first

SpecNum == InitNum /\ [][NextNum]_vars

----------------------------------------------------------------------------
(* Reading the input and the output, for the properties below               *)

IsLineEnd(c) == c = CR \/ c = LF

\* the k-th smallest element of a set of integers
Nth(S, k) == CHOOSE i \in S : Cardinality({ j \in S : j < i }) = k - 1

\* the positions where a non-empty line of t starts
LineStarts(t) ==
    { i \in 1..Len(t) : ~IsLineEnd(t[i]) /\ (i = 1 \/ IsLineEnd(t[i - 1])) }

\* the last position of the line that starts at i
LineStop(t, i) ==
    CHOOSE j \in i..Len(t) :
        /\ \A k \in i..j : ~IsLineEnd(t[k])
        /\ j = Len(t) \/ IsLineEnd(t[j + 1])

\* the non-empty lines of t: its maximal runs free of "\r" and "\n", in order
NonEmptyLines(t) ==
    [k \in 1..Cardinality(LineStarts(t)) |->
        LET i == Nth(LineStarts(t), k) IN SubSeq(t, i, LineStop(t, i))]

LineClass(line) ==
    IF Len(line) >= 2 /\ line[1] = "*" /\ line[2] = "*" THEN "bold"
    ELSE IF line[1] = "-" THEN "bullet"
    ELSE "plain"

MarkerLen(class) == CASE class = "bold" -> 2 [] class = "bullet" -> 1 [] class = "plain" -> 0

\* the pieces of out that run from a token of opens to the next token of closes
Pieces(out, opens, closes) ==
    LET starts == { i \in 1..Len(out) : out[i] \in opens }
        stop(i) == CHOOSE j \in i..Len(out) :
                       /\ out[j] \in closes
                       /\ \A k \in i..(j - 1) : out[k] \notin closes
    IN  [k \in 1..Cardinality(starts) |->
            LET i == Nth(starts, k) IN SubSeq(out, i, stop(i))]

\* the rows of an output of isi-form.tsx, and of part_000
Rows_form(out) == Pieces(out, {RowOpen, BulletRowOpen}, {RowClose, BulletRowClose})
Rows_part(out) == Pieces(out, {PRowOpen}, {PRowClose})

\* the last position of a row holding a token of S
LastOf(row, S) ==
    CHOOSE i \in 1..Len(row) :
        /\ row[i] \in S
        /\ \A k \in (i + 1)..Len(row) : row[k] \notin S

\* the text a row of isi-form.tsx shows: what stands between the end of the
\* style of its text cell and the closing tags
RowText_form(row) ==
    SubSeq(row, LastOf(row, {RowTextOpen, BulletTextOpen}) + 1, Len(row) - 1)

\* the font weight of the cell holding the text
RowWeight_form(row) == row[LastOf(row, {RowTextOpen, BulletTextOpen}) - 1]

\* the characters that follow position i of out, up to the next template chunk
TemplateChars == HexChars \cup TextAlphabet \cup {"#", "p", "x", " ", "<"}

ValueAt(out, i) ==
    LET stop == CHOOSE j \in i..Len(out) :
                    /\ \A k \in (i + 1)..j : out[k] \in TemplateChars
                    /\ j = Len(out) \/ out[j + 1] \notin TemplateChars
    IN  SubSeq(out, i + 1, stop)

\* the values that follow the occurrences of a chunk in out
ValuesAfter(out, chunk) == { ValueAt(out, i) : i \in { j \in 1..Len(out) : out[j] = chunk } }

Count(out, chunk) == Cardinality({ i \in 1..Len(out) : out[i] = chunk })

\* the argument of the last call of handleISIValues
Called == handled # <<>>
Arg == handled[1]

----------------------------------------------------------------------------
(* Properties                                                               *)

\* C1: handleISIValues (isi-form.tsx and part_000) emits exactly as many rows
\* as the text has non-empty lines; a blank line gives no row, wherever it is
C1_RowCount ==
    Called =>
        /\ variant = "form" =>
               Len(Rows_form(generatedISI)) = Len(NonEmptyLines(Arg.ISI))
        /\ variant = "part" =>
               Len(Rows_part(generatedISI)) = Len(NonEmptyLines(Arg.ISI))

\* a text with a leading, a trailing and two consecutive line ends gave one row
C1_Witness ==
    /\ Called
    /\ variant \in {"form", "part"}
    /\ Arg.ISI = <<LF, "a", LF>>
    /\ Len(Rows_form(generatedISI)) + Len(Rows_part(generatedISI)) = 1

\* C2: the rows stand in the order of the non-empty lines they come from:
\* the k-th row shows the k-th non-empty line, less a marker of at most 2
\* characters, for every k
C2_RowOrder ==
    Called /\ variant = "form" =>
        LET rows == Rows_form(generatedISI)
            lines == NonEmptyLines(Arg.ISI)
        IN  \A k \in 1..Len(rows) :
                /\ k <= Len(lines)
                /\ \E m \in 0..2 : RowText_form(rows[k]) = substring(lines[k], m)

\* a bold, a bullet and a plain line gave three rows showing b, c, d in order
C2_Witness ==
    /\ Called
    /\ variant = "form"
    /\ Arg.ISI = ThreeClassText
    /\ LET rows == Rows_form(generatedISI)
       IN  /\ Len(rows) = 3
           /\ RowText_form(rows[1]) = <<"b">>
           /\ RowText_form(rows[2]) = <<"c">>
           /\ RowText_form(rows[3]) = <<"d">>

\* the class a row of isi-form.tsx shows
RowClass_form(row) ==
    IF row[1] = BulletRowOpen THEN "bullet"
    ELSE IF RowWeight_form(row) = Bold THEN "bold"
    ELSE "plain"

\* C3: each non-empty line falls in one class, decided by its first
\* characters ("**", then "-", then plain), and its row shows the line with
\* exactly that marker removed and nothing else changed
C3_ClassAndText ==
    Called /\ variant = "form" =>
        LET rows == Rows_form(generatedISI)
            lines == NonEmptyLines(Arg.ISI)
        IN  /\ Len(rows) = Len(lines)
            /\ \A k \in 1..Len(lines) :
                   /\ RowClass_form(rows[k]) = LineClass(lines[k])
                   /\ RowText_form(rows[k]) =
                          substring(lines[k], MarkerLen(LineClass(lines[k])))

\* "**-a" gave one bold row showing "-a"
C3_Witness ==
    /\ Called
    /\ variant = "form"
    /\ Arg.ISI = BoldDashText
    /\ LET rows == Rows_form(generatedISI)
       IN  /\ Len(rows) = 1
           /\ RowClass_form(rows[1]) = "bold"
           /\ RowText_form(rows[1]) = <<"-", "a">>

\* C4: the shape of a row follows the class of its line: bold and plain lines
\* give a single cell whose style ends with the weight bold, resp. normal; a
\* bullet line gives a nested table of two cells, the first of width 12 with
\* the glyph in bold, the second with the text in weight normal
C4_RowShape ==
    Called /\ variant = "form" =>
        LET rows == Rows_form(generatedISI)
            lines == NonEmptyLines(Arg.ISI)
        IN  \A k \in 1..Len(lines) :
                k <= Len(rows) /\
                LET row == rows[k]
                    class == LineClass(lines[k])
                    last == Len(row)
                    open == LastOf(row, {RowTextOpen, BulletTextOpen})
                IN  /\ class \in {"bold", "plain"} =>
                        /\ row[1] = RowOpen
                        /\ row[last] = RowClose
                        /\ row[open] = RowTextOpen
                        /\ row[open - 2] = StyleWeight
                        /\ row[open - 1] = (IF class = "bold" THEN Bold ELSE Normal)
                        /\ Count(row, BulletGlyph) = 0
                        /\ Count(row, StyleWeight) = 1
                    /\ class = "bullet" =>
                        /\ row[1] = BulletRowOpen
                        /\ row[last] = BulletRowClose
                        /\ Count(row, BulletGlyph) = 1
                        /\ Count(row, BulletTextCell) = 1
                        /\ Count(row, StyleWeight) = 2
                        /\ LET glyph == LastOf(row, {BulletGlyph})
                           IN  /\ row[glyph - 2] = StyleWeight
                               /\ row[glyph - 1] = Bold
                               /\ row[glyph + 1] = BulletTextCell
                        /\ row[open] = BulletTextOpen
                        /\ row[open - 2] = StyleWeight
                        /\ row[open - 1] = Normal

\* the three classes were rendered in one output
C4_Witness ==
    /\ Called
    /\ variant = "form"
    /\ Arg.ISI = ThreeClassText
    /\ LET rows == Rows_form(generatedISI)
       IN  /\ Len(rows) = 3
           /\ rows[1][1] = RowOpen /\ RowWeight_form(rows[1]) = Bold
           /\ rows[2][1] = BulletRowOpen /\ Count(rows[2], BulletGlyph) = 1
           /\ rows[3][1] = RowOpen /\ RowWeight_form(rows[3]) = Normal

\* every occurrence of chunk in out is followed by exactly the tokens of seq
Follows(out, chunk, seq) ==
    \A i \in 1..Len(out) :
        out[i] = chunk =>
            /\ i + Len(seq) <= Len(out)
            /\ SubSeq(out, i + 1, i + Len(seq)) = seq

\* the position of the only occurrence of chunk in out
PosOf(out, chunk) == CHOOSE i \in 1..Len(out) : out[i] = chunk

\* C5: a numeric or colour field that reaches generation empty is rendered
\* with its default: no colour value of the output is empty, and an empty
\* colour field shows as #000000 (isi-form.tsx and part_000)
C5_DefaultsApplied ==
    Called /\ variant \in {"form", "part"} =>
        LET label == IF variant = "form" THEN StyleColor ELSE PStyleColor
            empty == /\ Arg.fontColor = <<>>
                     /\ variant = "form" => Arg.bulletColor = <<>>
        IN  /\ <<>> \notin ValuesAfter(generatedISI, label)
            /\ empty => ValuesAfter(generatedISI, label) \subseteq {DefaultBlack}

C7_LineEndings ==
    Called /\ variant = "form" =>
        LET rows == Rows_form(generatedISI)
        IN  /\ Len(rows) = Len(NonEmptyLines(Arg.ISI))
            /\ \A k \in 1..Len(rows) :
                   Chars(RowText_form(rows[k])) \cap {CR, LF} = {}
            /\ Arg.ISI = MixedText =>
                   [k \in 1..Len(rows) |-> RowText_form(rows[k])]
                       = << <<"a">>, <<"b">>, <<"c">>, <<"d">> >>

\* the mixed text was rendered and gave 4 rows
C7_Witness ==
    /\ Called
    /\ variant = "form"
    /\ Arg.ISI = MixedText
    /\ Len(Rows_form(generatedISI)) = 4

\* the colours of the bullet glyphs of an output of isi-form.tsx
GlyphColors_form(out) ==
    LET label(i) == CHOOSE j \in i..Len(out) :
                        /\ out[j] = StyleColor
                        /\ \A k \in i..(j - 1) : out[k] # StyleColor
    IN  { ValueAt(out, label(i)) : i \in { j \in 1..Len(out) : out[j] = BulletRowOpen } }

\* C8: bulletColor is used only if hasBullets is true: with hasBullets false
\* the bullet glyph is rendered in the default colour, whatever bulletColor is
C8_BulletColorGated ==
    Called /\ variant = "form" /\ ~Arg.hasBullets =>
        GlyphColors_form(generatedISI) \subseteq {DefaultBlack}

\* C9: the output of isi-form.tsx is one outer table of width 600 whose
\* bgcolor is tableColor, or #FFFFFE when tableColor is empty, with a left
\* gutter cell, a middle cell holding one inner table with all rows, and a
\* right gutter cell of the same width as the left one, rows or no rows
C9_Wrapper ==
    Called /\ variant = "form" =>
        LET out == generatedISI
            left == PosOf(out, WrapGutterLeft)
            inner == PosOf(out, WrapInner)
            right == PosOf(out, WrapGutterRight)
        IN  /\ \A c \in {WrapOpen, WrapGutterLeft, WrapInner, WrapGutterRight,
                         WrapClose} : Count(out, c) = 1
            /\ out[1] = WrapOpen
            /\ out[Len(out)] = WrapClose
            /\ ValueAt(out, 1) =
                   (IF Arg.tableColor = <<>> THEN DefaultTableColor ELSE Arg.tableColor)
            /\ left = 2 + Len(ValueAt(out, 1))
            /\ ValueAt(out, left) # <<>>
            /\ ValueAt(out, left) = ValueAt(out, right)
            /\ inner = left + Len(ValueAt(out, left)) + 1
            /\ Len(out) = right + Len(ValueAt(out, right)) + 1
            /\ SubSeq(out, inner + 1, right - 1) = join(Rows_form(out))

\* a text of blank lines only gave the wrapper around no row
C9_Witness ==
    /\ Called
    /\ variant = "form"
    /\ Arg.ISI = <<LF>>
    /\ Rows_form(generatedISI) = <<>>
    /\ generatedISI[1] = WrapOpen

\* what the schema is to reject: an empty ISI text, a numeric field that is
\* no number, a colour that is neither empty nor 3 or 6 hex digits after an
\* optional "#"
Malformed(s) ==
    /\ s # <<>>
    /\ ~IsHexRun(s)
    /\ ~(s[1] = "#" /\ IsHexRun(Tail(s)))

Rejectable(f) ==
    \/ f.ISI = <<>>
    \/ \E k \in NumFields : \E i \in 1..Len(f[k]) : ~IsDigit(f[k][i])
    \/ \E k \in ColorFields("form") : Malformed(f[k])

Complete_form(out) ==
    /\ Len(out) >= 2
    /\ out[1] = WrapOpen
    /\ out[Len(out)] = WrapClose

\* C10: in isi-form.tsx generation runs only on a submit that passes the
\* schema: a submit with an empty ISI text, a non-numeric numeric field or a
\* malformed colour leaves generatedISI, isClipboardWritten and the last call
\* of handleISIValues as they were; a submit that passes ends with a complete
\* output in generatedISI; and nothing but a passing submit changes
\* generatedISI
C10_SubmitGate ==
    [][variant = "form" =>
          /\ (Submit /\ Rejectable(form)) =>
                 UNCHANGED <<generatedISI, isClipboardWritten, handled>>
          /\ (Submit /\ errors' = {}) =>
                 /\ Complete_form(generatedISI')
                 /\ isClipboardWritten' = FALSE
                 /\ handled' # <<>>
          /\ generatedISI' # generatedISI => (Submit /\ errors' = {})]_vars

\* a submit was rejected for a numeric field after an output had been
\* generated and copied: both are still there
C10_Witness ==
    /\ variant = "form"
    /\ errors \cap NumFields # {}
    /\ isClipboardWritten
    /\ Complete_form(generatedISI)

\* C11: a clipboard copy never changes the generated HTML: a step that starts
\* or settles a clipboard write (part_000 and App.tsx) leaves generatedISI,
\* the form and the last call as they were; starting a write changes nothing
\* else; a write that fails raises the failure notification and leaves
\* isClipboardWritten and the clipboard unchanged
C11_CopyFrame ==
    [][(variant \in {"part", "app"} /\ pending' # pending) =>
          /\ UNCHANGED <<generatedISI, form, errors, handled>>
          /\ Len(pending') > Len(pending) =>
                 UNCHANGED <<isClipboardWritten, clipboard, toast>>
          /\ (Len(pending') < Len(pending) /\ toast' = "failed") =>
                 UNCHANGED <<isClipboardWritten, clipboard>>
          /\ Len(pending') < Len(pending) => toast' \in {"copied", "failed"}]_vars

\* a write failed after an earlier one had succeeded: the output is still
\* shown and still marked as copied
C11_Witness ==
    /\ variant \in {"part", "app"}
    /\ toast = "failed"
    /\ isClipboardWritten
    /\ clipboard = generatedISI
    /\ generatedISI # <<>>

Submitted == Called \/ errors # {}

AllHex(s) == \A i \in 1..Len(s) : s[i] \in HexChars

\* ^#?([0-9A-Fa-f]{3}|[0-9A-Fa-f]{6})$
OptionalHashColor(s) ==
    \/ Len(s) \in {3, 6} /\ AllHex(s)
    \/ Len(s) \in {4, 7} /\ s[1] = "#" /\ AllHex(Tail(s))

\* ^#([0-9A-Fa-f]{3}|[0-9A-Fa-f]{6})$
HashColor(s) == Len(s) \in {4, 7} /\ s[1] = "#" /\ AllHex(Tail(s))

\* C13 as stated: a colour field passes validation exactly when it is empty
\* or is 3 or 6 hex digits after an optional "#"; every other string is
\* rejected and blocks generation
C13_OptionalHash ==
    Submitted =>
        /\ \A f \in ColorFields(variant) :
               f \notin errors <=> (form[f] = <<>> \/ OptionalHashColor(form[f]))
        /\ errors # {} => ~Called

\* C13, amended: in isi-form.tsx and part_000 a colour field passes
\* validation exactly when it is empty or is a "#" followed by 3 or 6 hex
\* digits; in App.tsx exactly when it is empty, a lone "#", or 3 or 6 hex
\* digits after an optional "#"; every other string is rejected and blocks
\* generation
C13_ColorPattern ==
    Submitted =>
        /\ \A f \in ColorFields(variant) :
               f \notin errors <=>
                   \/ form[f] = <<>>
                   \/ variant \in {"form", "part"} /\ HashColor(form[f])
                   \/ variant = "app" /\ OptionalHashColor(form[f])
                   \/ variant = "app" /\ form[f] = <<"#">>
        /\ errors # {} => ~Called

\* isi-form.tsx rejected 3 hex digits without a "#" and generated nothing
C13_Witness ==
    /\ variant = "form"
    /\ form.tableColor = <<"a", "a", "a">>
    /\ errors = {"tableColor"}
    /\ ~Called
    /\ generatedISI = <<>>

\* C14: whenever isClipboardWritten is true, the text last written to the
\* clipboard is the generatedISI on display, for every interleaving of
\* generating and copying
C14_CopiedIsShown == isClipboardWritten => clipboard = generatedISI

\* handleISIValues ran on a form whose field k the user had filled in
Supplied(k) == Called /\ form[k] # <<>>

\* C15: a numeric value the user supplied is rendered as supplied, 0
\* included, and never replaced by the default of its field: padding-bottom,
\* font-size and line-height show the value followed by px, the gutter cells
\* have the value as their width (isi-form.tsx and part_000)
C15_ZeroRendered ==
    variant \in {"form", "part"} =>
        LET out == generatedISI
            isForm == variant = "form"
            px == IF isForm THEN <<>> ELSE Px
            shown(k) == NumToStr(Arg[k]) \o px
            gutters == IF isForm THEN {WrapGutterLeft, WrapGutterRight}
                       ELSE {PRowGutterLeft, PRowTextClose}
        IN  /\ Supplied("padding") =>
                   ValuesAfter(out, StylePadding) \subseteq {shown("padding")}
            /\ Supplied("fontSize") =>
                   ValuesAfter(out, StyleFontSize) \subseteq {shown("fontSize")}
            /\ Supplied("lineHeight") =>
                   ValuesAfter(out, IF isForm THEN StyleLineHeight ELSE PStyleLineHeight)
                       \subseteq {shown("lineHeight")}
            /\ Supplied("gutterWidth") =>
                   \A g \in gutters :
                       ValuesAfter(out, g) \subseteq
                           {NumToStr(Arg.gutterWidth), NumToStr(Arg.gutterWidth) \o Px}

\* the positions where a line separator of t ends: a "\n", or a "\r" that no
\* "\n" follows
SeparatorEnds(t) ==
    { i \in 1..Len(t) :
        \/ t[i] = LF
        \/ t[i] = CR /\ (i = Len(t) \/ t[i + 1] # LF) }

\* the segments of t, blank ones included: what stands before, between and
\* after its separators
Segments(t) ==
    LET ends == SeparatorEnds(t)
        n == Cardinality(ends)
        after(k) == IF k = 0 THEN 1 ELSE Nth(ends, k) + 1
        before(k) ==
            IF k = n + 1 THEN Len(t)
            ELSE LET i == Nth(ends, k)
                 IN  IF t[i] = LF /\ i > 1 /\ t[i - 1] = CR THEN i - 2 ELSE i - 1
    IN  [k \in 1..(n + 1) |-> SubSeq(t, after(k - 1), before(k))]

SegmentClass(seg) ==
    IF Len(seg) >= 2 /\ seg[1] = "*" /\ seg[2] = "*" THEN "bold"
    ELSE IF Len(seg) >= 1 /\ seg[1] = "-" THEN "bullet"
    ELSE "plain"

\* the rows of an output of App.tsx
Rows_app(out) == Pieces(out, {ARowOpen}, {ARowClose})

\* the class a row of App.tsx shows
RowClass_app(row) ==
    IF Count(row, ABulletGlyph) > 0 THEN "bullet"
    ELSE IF row[LastOf(row, {AStyleWeight}) + 1] = Bold THEN "bold"
    ELSE "plain"

\* the text a row of App.tsx shows
RowText_app(row) ==
    IF Count(row, ABulletGlyph) > 0
    THEN SubSeq(row, LastOf(row, {ABulletTextOpen}) + 1, LastOf(row, {ABulletClose}) - 1)
    ELSE SubSeq(row, LastOf(row, {ARowTextOpen}) + 1, LastOf(row, {ARowTextClose}) - 1)

\* C16: in App.tsx the three if tests are mutually exclusive and exhaustive:
\* every segment of the split text, blank ones included, appends exactly one
\* row, of the class of the segment, so there are as many rows as segments
C16_OneRowPerSegment ==
    Called /\ variant = "app" =>
        LET out == generatedISI
            rows == Rows_app(out)
            segs == Segments(Arg.ISI)
        IN  /\ Len(rows) = Len(segs)
            /\ Count(out, ARowOpen) = Len(segs)
            /\ Count(out, ARowClose) = Len(segs)
            /\ Count(out, ARowTextOpen) + Count(out, ABulletGlyph) = Len(segs)
            /\ join(rows) = out
            /\ \A k \in 1..Len(segs) :
                   /\ RowClass_app(rows[k]) = SegmentClass(segs[k])
                   /\ RowText_app(rows[k]) =
                          substring(segs[k], MarkerLen(SegmentClass(segs[k])))

\* a bullet line between two blank lines gave three rows in App.tsx: a plain
\* row without text, the bullet row, a plain row without text
C16_Witness ==
    /\ Called
    /\ variant = "app"
    /\ Arg.ISI = <<LF, "-", LF>>
    /\ LET rows == Rows_app(generatedISI)
       IN  /\ Len(rows) = 3
           /\ RowClass_app(rows[1]) = "plain" /\ RowText_app(rows[1]) = <<>>
           /\ RowClass_app(rows[2]) = "bullet"
           /\ RowClass_app(rows[3]) = "plain" /\ RowText_app(rows[3]) = <<>>

====
